---------------------------- MODULE Spec2Model ----------------------------
(***************************************************************************)
(* Caching and provider-routing layer of the translation API.              *)
(*                                                                         *)
(*   app/cache.py        generate_cache_key, get_cached_translation,       *)
(*                       set_cached_translation, get_cache_stats           *)
(*   app/translation.py  translate and the three provider adapters         *)
(*   app/main.py         translate_text, the request handler               *)
(*                                                                         *)
(* The backing store (Redis) is shared by every handler.  Each Redis       *)
(* command is one atomic step that either takes effect or raises; the      *)
(* handlers of different workers interleave between commands.  A key's     *)
(* lifetime is kept as the number of seconds last assigned to it, and the  *)
(* passing of time is the event KeyExpires, which removes a key that has a *)
(* lifetime.                                                               *)
(***************************************************************************)
EXTENDS Integers, Sequences, FiniteSets, TLC

VARIABLES
    redis_entries,   \* "trans:<digest>" |-> [val, ttl]: the cache entries present
    redis_counters,  \* "count:..." and "stats:..." |-> [val, ttl]: the integer keys present
    pc,              \* per handler: the statement it is at
    caller,          \* per handler: what it runs ("request", "get", "put", "translate",
                     \* "stats")
    req,             \* per handler: the arguments of the running call
    loc,             \* per handler: the local variables of the running call
    obs,             \* per handler: what the running call has done and seen so far
    adapter_calls,   \* per handler: the adapters the running call invoked, in order
    history,         \* the first two completed requests of the traced scenario
    calls,           \* number of calls started
    put_done,        \* per count key: number of puts that have incremented and returned
    put_rets,        \* per count key: the set of values the completed puts returned
    dirty,           \* keys that expired, and count keys whose put met a store failure
                     \* (the puts of a dirty count key are no longer counted)
    tripleA, tripleB,\* two (text, source_lang, target_lang) triples under comparison
    keyA, keyB       \* generate_cache_key of tripleA and of tripleB

storev == <<redis_entries, redis_counters>>
procv == <<pc, caller, req, loc, obs, adapter_calls, history>>
putv == <<put_done, put_rets, dirty>>
keyv == <<tripleA, tripleB, keyA, keyB>>
vars == <<storev, procv, putv, keyv, calls>>

---------------------------------------------------------------------------
(* Bounds of the model *)

NProcs == 2
MaxCalls == 3
MaxCount == 101
MaxLen == 2
MaxStat == 4
MaxRace == 5

Procs == 1..NProcs

---------------------------------------------------------------------------
(* Values *)

\* Python's None, for the Optional[str] values of the code.
None == "None"

\* Python truthiness of an Optional[str]: None and "" are false.
Truthy(v) == v # None /\ v # ""

\* TTL of a key without expiry, as Redis reports it.
NoExpiry == -1

---------------------------------------------------------------------------
(* app/cache.py: the key *)

\* hashlib.md5(...).hexdigest(): a deterministic digest, taken to be free of
\* collisions (distinct contents give distinct digests).
md5_hexdigest(content) == "md5(" \o content \o ")"

generate_cache_key(text, source_lang, target_lang) ==
    LET content == text \o ":" \o source_lang \o ":" \o target_lang
    IN  "trans:" \o md5_hexdigest(content)

count_key_of(cache_key) == "count:" \o cache_key

STATS_HITS == "stats:cache_hits"
STATS_MISSES == "stats:cache_misses"

---------------------------------------------------------------------------
(* The Redis commands the code issues, on the keys present *)

\* GET: the value, or None when the key is absent.
redis_get(store, k) == IF k \in DOMAIN store THEN store[k].val ELSE None

\* Value of an integer key, 0 when absent.
int_of(store, k) == IF k \in DOMAIN store THEN store[k].val ELSE 0

\* A write of 1 in place of the increment.
redis_incr_overwrites(store, k) == (k :> [val |-> 1, ttl |-> NoExpiry]) @@ store

\* INCR: atomic add of one; an absent key is created at 1 with no expiry, a
\* present key keeps its lifetime.
redis_incr(store, k) ==
    IF k \in DOMAIN store
    THEN [store EXCEPT ![k].val = @ + 1]
    ELSE (k :> [val |-> 1, ttl |-> NoExpiry]) @@ store

\* EXPIRE: sets the lifetime of a present key.
redis_expire(store, k, seconds) ==
    IF k \in DOMAIN store THEN [store EXCEPT ![k].ttl = seconds] ELSE store

\* SETEX: writes value and lifetime together.
redis_setex(store, k, seconds, value) ==
    (k :> [val |-> value, ttl |-> seconds]) @@ store

\* Removal of an expired key.
redis_drop(store, k) == [x \in DOMAIN store \ {k} |-> store[x]]

---------------------------------------------------------------------------
(* Handlers *)

\* Local variables of a call before it assigns them.
NoLocals ==
    [cached |-> None, cached_result |-> None, count |-> 0,
     hits |-> 0, misses |-> 0, memory_used |-> "N/A"]

\* The dictionary get_cache_stats returns, before it is built.
NoStats ==
    [cache_hits |-> 0, cache_misses |-> 0, hit_rate |-> "", total_requests |-> 0,
     memory_used |-> "", total_keys |-> 0]

\* Nothing returned or raised yet.
NoResponse ==
    [kind |-> "none", status |-> 0, detail |-> "", translated_text |-> None,
     cached |-> FALSE, request_count |-> 0]

NoObs ==
    [get |-> "none", get_ret |-> None, get_present |-> FALSE, get_stored |-> None,
     get_failed |-> FALSE, get_hit |-> 0, get_miss |-> 0,
     put |-> "none", put_ret |-> 0, put_failed |-> FALSE, put_ttl |-> 0,
     tr |-> "none", tr_ret |-> None, exc |-> [status |-> 0, detail |-> ""],
     upstream |-> "none",
     stats |-> NoStats, stats_failed |-> "none",
     resp |-> NoResponse]

NoRequest ==
    [text |-> "", source_lang |-> "", target_lang |-> "", provider |-> "",
     user_key |-> "none", user_api_key |-> None, translated_text |-> None,
     traced |-> FALSE]

cache_key(p) == generate_cache_key(req[p].text, req[p].source_lang, req[p].target_lang)
count_key(p) == count_key_of(cache_key(p))

\* State after construction: an empty store, every handler idle.
Init ==
    /\ redis_entries = <<>>
    /\ redis_counters = <<>>
    /\ pc = [p \in Procs |-> "idle"]
    /\ caller = [p \in Procs |-> "none"]
    /\ req = [p \in Procs |-> NoRequest]
    /\ loc = [p \in Procs |-> NoLocals]
    /\ obs = [p \in Procs |-> NoObs]
    /\ adapter_calls = [p \in Procs |-> <<>>]
    /\ history = <<>>
    /\ calls = 0
    /\ put_done = <<>>
    /\ put_rets = <<>>
    /\ dirty = {}
    /\ tripleA = <<"", "", "">>
    /\ tripleB = <<"", "", "">>
    /\ keyA = None
    /\ keyB = None

\* No handler is done: a done handler is released before anything else
\* happens, so that the end of each call is one state of the run.
quiet == \A q \in Procs : pc[q] # "done"

\* Handler p is at statement `label`.
at(p, label) == quiet /\ pc[p] = label

\* A call starts on an idle handler, with fresh locals. Idle handlers are
\* interchangeable: the lowest one takes the call.
begin(p, kind, first, r) ==
    /\ at(p, "idle")
    /\ \A q \in Procs : q < p => pc[q] # "idle"
    /\ pc' = [pc EXCEPT ![p] = first]
    /\ caller' = [caller EXCEPT ![p] = kind]
    /\ req' = [req EXCEPT ![p] = r]
    /\ loc' = [loc EXCEPT ![p] = NoLocals]
    /\ obs' = [obs EXCEPT ![p] = NoObs]
    /\ adapter_calls' = [adapter_calls EXCEPT ![p] = <<>>]
    /\ UNCHANGED <<storev, putv, keyv, history>>

\* At most MaxCalls calls are started.
admit ==
    /\ calls < MaxCalls
    /\ calls' = calls + 1

\* The running call goes on at statement `next` with request r, locals l and
\* observations o.
goto(p, next, r, l, o) ==
    /\ pc' = [pc EXCEPT ![p] = next]
    /\ req' = [req EXCEPT ![p] = r]
    /\ loc' = [loc EXCEPT ![p] = l]
    /\ obs' = [obs EXCEPT ![p] = o]
    /\ UNCHANGED <<caller, adapter_calls, history>>

\* The running call ends with request r and observations o: the handler is
\* done. A traced request is entered in history with the counters as it
\* left them; one that met a store failure or did not answer 200 is
\* entered as not clean, without its details.
finish(p, r, o) ==
    LET clean == ~o.get_failed /\ ~o.put_failed /\ o.resp.kind = "ok"
        rec == IF clean
               THEN [clean |-> TRUE, resp |-> o.resp, get_hit |-> o.get_hit,
                     get_miss |-> o.get_miss, put_ttl |-> o.put_ttl,
                     adapter_calls |-> adapter_calls[p],
                     hits |-> int_of(redis_counters', STATS_HITS),
                     misses |-> int_of(redis_counters', STATS_MISSES),
                     count |-> int_of(redis_counters', count_key(p))]
               ELSE [clean |-> FALSE, resp |-> NoResponse, get_hit |-> 0, get_miss |-> 0,
                     put_ttl |-> 0, adapter_calls |-> <<>>, hits |-> 0, misses |-> 0,
                     count |-> 0]
    IN  /\ pc' = [pc EXCEPT ![p] = "done"]
        /\ req' = [req EXCEPT ![p] = r]
        /\ obs' = [obs EXCEPT ![p] = o]
        /\ history' = IF r.traced /\ Len(history) < 2 THEN Append(history, rec) ELSE history
        /\ UNCHANGED <<caller, loc, adapter_calls>>

\* A done handler is idle again; what its call left behind is dropped.
release(p) ==
    /\ pc[p] = "done"
    /\ pc' = [pc EXCEPT ![p] = "idle"]
    /\ caller' = [caller EXCEPT ![p] = "none"]
    /\ req' = [req EXCEPT ![p] = NoRequest]
    /\ loc' = [loc EXCEPT ![p] = NoLocals]
    /\ obs' = [obs EXCEPT ![p] = NoObs]
    /\ adapter_calls' = [adapter_calls EXCEPT ![p] = <<>>]
    /\ UNCHANGED <<storev, putv, keyv, calls, history>>

---------------------------------------------------------------------------
(* app/cache.py: get_cached_translation *)

\* `return r` of get_cached_translation: to translate_text, which goes on at
\* line 202, or to a direct caller.
get_return(p, o) ==
    IF caller[p] = "request"
    THEN goto(p, "check_cached", req[p], [loc[p] EXCEPT !.cached_result = o.get_ret], o)
    ELSE finish(p, req[p], o)

\* The exception of the body leaves get_cached_translation uncaught.
get_except_raises(p) ==
    finish(p, req[p],
           [obs[p] EXCEPT !.get = "raised", !.get_failed = TRUE,
                          !.resp = [NoResponse EXCEPT !.kind = "crash", !.status = 500,
                                                      !.detail = "RedisError"]])

\* Lines 38-40: any exception of the body is caught and None is returned.
get_except(p) ==
    get_return(p, [obs[p] EXCEPT !.get = "returned", !.get_ret = None, !.get_failed = TRUE])

\* Line 30: cached = redis_client.get(cache_key)
get_lookup(p) ==
    /\ at(p, "get_lookup")
    /\ UNCHANGED <<storev, putv, keyv, calls>>
    /\ \/ goto(p, "get_stat", req[p],
                [loc[p] EXCEPT !.cached = redis_get(redis_entries, cache_key(p))],
                [obs[p] EXCEPT !.get_present = cache_key(p) \in DOMAIN redis_entries,
                               !.get_stored = redis_get(redis_entries, cache_key(p))])
       \/ get_except(p)

\* Lines 32-37: the hit or the miss counter is incremented, then the return.
get_stat(p) ==
    /\ at(p, "get_stat")
    /\ UNCHANGED <<redis_entries, putv, keyv, calls>>
    /\ \/ /\ Truthy(loc[p].cached)
          /\ redis_counters' = redis_incr(redis_counters, STATS_HITS)
          /\ get_return(p, [obs[p] EXCEPT !.get = "returned", !.get_ret = loc[p].cached,
                                          !.get_hit = 1])
       \/ /\ ~Truthy(loc[p].cached)
          /\ redis_counters' = redis_incr(redis_counters, STATS_MISSES)
          /\ get_return(p, [obs[p] EXCEPT !.get = "returned", !.get_ret = None,
                                          !.get_miss = 1])
       \/ /\ UNCHANGED redis_counters
          /\ get_except(p)

---------------------------------------------------------------------------
(* app/cache.py: set_cached_translation *)

COUNT_WINDOW == 604800

\* The thresholds compared with > in place of >=.
expire_seconds_strict(count) ==
    IF count > 100 THEN 604800
    ELSE IF count > 20 THEN 86400
    ELSE IF count > 5 THEN 3600
    ELSE 1800

\* Lines 61-68: the lifetime of the cache entry, by popularity.
expire_seconds(count) ==
    IF count >= 100 THEN 604800
    ELSE IF count >= 20 THEN 86400
    ELSE IF count >= 5 THEN 3600
    ELSE 1800

done_of(k) == IF k \in DOMAIN put_done THEN put_done[k] ELSE 0
rets_of(k) == IF k \in DOMAIN put_rets THEN put_rets[k] ELSE {}

\* `return` of set_cached_translation: to translate_text, which goes on at
\* line 244, or to a direct caller.
put_return(p, o) ==
    /\ IF o.put_failed
       THEN /\ dirty' = dirty \cup {count_key(p)}
            /\ put_done' = redis_drop(put_done, count_key(p))
            /\ put_rets' = redis_drop(put_rets, count_key(p))
       ELSE IF count_key(p) \in dirty
       THEN UNCHANGED putv
       ELSE /\ put_done' = (count_key(p) :> done_of(count_key(p)) + 1) @@ put_done
            /\ put_rets' = (count_key(p) :> rets_of(count_key(p)) \cup {o.put_ret}) @@ put_rets
            /\ UNCHANGED dirty
    /\ IF caller[p] = "request"
       THEN goto(p, "respond", req[p], loc[p], o)
       ELSE finish(p, req[p], o)

\* The exception of the body leaves set_cached_translation uncaught.
put_except_raises(p) ==
    /\ dirty' = dirty \cup {count_key(p)}
    /\ put_done' = redis_drop(put_done, count_key(p))
    /\ put_rets' = redis_drop(put_rets, count_key(p))
    /\ finish(p, req[p],
              [obs[p] EXCEPT !.put = "raised", !.put_failed = TRUE,
                             !.resp = [NoResponse EXCEPT !.kind = "crash", !.status = 500,
                                                         !.detail = "RedisError"]])

\* Lines 72-74: any exception of the body is caught and 0 is returned.
put_except(p) ==
    put_return(p, [obs[p] EXCEPT !.put = "returned", !.put_ret = 0, !.put_failed = TRUE])

\* Line 57: count = redis_client.incr(count_key)
set_incr(p) ==
    /\ at(p, "set_incr")
    /\ UNCHANGED <<redis_entries, keyv, calls>>
    /\ \/ /\ redis_counters' = redis_incr(redis_counters, count_key(p))
          /\ goto(p, "set_expire", req[p],
                  [loc[p] EXCEPT !.count = int_of(redis_counters', count_key(p))], obs[p])
          /\ UNCHANGED putv
       \/ /\ UNCHANGED redis_counters
          /\ put_except(p)

\* Line 58: redis_client.expire(count_key, 604800)
set_expire(p) ==
    /\ at(p, "set_expire")
    /\ UNCHANGED <<redis_entries, keyv, calls>>
    /\ \/ /\ redis_counters' = redis_expire(redis_counters, count_key(p), COUNT_WINDOW)
          /\ goto(p, "set_setex", req[p], loc[p], obs[p])
          /\ UNCHANGED putv
       \/ /\ UNCHANGED redis_counters
          /\ put_except(p)

\* Lines 61-71: the lifetime is chosen from count, the entry is written with
\* it and count is returned. redis-py refuses a None value (DataError), which
\* the except branch catches like a failure of the store.
set_setex(p) ==
    /\ at(p, "set_setex")
    /\ UNCHANGED <<redis_counters, keyv, calls>>
    /\ \/ /\ req[p].translated_text # None
          /\ redis_entries' = redis_setex(redis_entries, cache_key(p),
                                          expire_seconds(loc[p].count),
                                          req[p].translated_text)
          /\ put_return(p, [obs[p] EXCEPT !.put = "returned", !.put_ret = loc[p].count,
                                          !.put_ttl = expire_seconds(loc[p].count)])
       \/ /\ UNCHANGED redis_entries
          /\ put_except(p)

---------------------------------------------------------------------------
(* app/cache.py: get_cache_stats *)

\* f"{x:.2f}%" of a value given in hundredths.
format_2f(hundredths) ==
    ToString(hundredths \div 100) \o "." \o ToString((hundredths % 100) \div 10)
        \o ToString(hundredths % 10) \o "%"

\* The share of the misses in place of the share of the hits.
hit_rate_of_misses(hits, total) ==
    IF total > 0
    THEN format_2f((2 * 10000 * (total - hits) + total) \div (2 * total))
    ELSE format_2f(0)

\* Lines 82 and 89: hit_rate = (hits / total * 100) if total > 0 else 0,
\* formatted with two decimals (rounded to the nearest hundredth; below a
\* total of 32 no quotient lies halfway between two hundredths).
hit_rate_of(hits, total) ==
    IF total > 0
    THEN format_2f((2 * 10000 * hits + total) \div (2 * total))
    ELSE format_2f(0)

\* redis_client.dbsize(): the number of keys of the database.
redis_dbsize == Cardinality(DOMAIN redis_entries) + Cardinality(DOMAIN redis_counters)

\* What info("memory") gives for used_memory_human, where it has the field.
USED_MEMORY_HUMAN == "1.00M"

\* Lines 94-103: any exception of the body is caught and the dictionary of
\* zeros is returned. `step` is the command that raised.
stats_except(p, step) ==
    finish(p, req[p],
           [obs[p] EXCEPT !.stats_failed = step,
                          !.stats = [cache_hits |-> 0, cache_misses |-> 0, hit_rate |-> "0%",
                                     total_requests |-> 0, memory_used |-> "N/A",
                                     total_keys |-> 0]])

\* Line 79: hits = int(redis_client.get("stats:cache_hits") or 0)
stats_hits(p) ==
    /\ at(p, "stats_hits")
    /\ UNCHANGED <<storev, putv, keyv, calls>>
    /\ \/ goto(p, "stats_misses", req[p],
                [loc[p] EXCEPT !.hits = int_of(redis_counters, STATS_HITS)], obs[p])
       \/ stats_except(p, "hits")

\* Line 80: misses = int(redis_client.get("stats:cache_misses") or 0)
stats_misses(p) ==
    /\ at(p, "stats_misses")
    /\ UNCHANGED <<storev, putv, keyv, calls>>
    /\ \/ goto(p, "stats_info", req[p],
                [loc[p] EXCEPT !.misses = int_of(redis_counters, STATS_MISSES)], obs[p])
       \/ stats_except(p, "misses")

\* Line 84 (and line 90): info = redis_client.info("memory"); the field is
\* read with "N/A" as the default.
stats_info(p) ==
    /\ at(p, "stats_info")
    /\ UNCHANGED <<storev, putv, keyv, calls>>
    /\ \/ \E m \in {USED_MEMORY_HUMAN, "N/A"} :
             goto(p, "stats_dbsize", req[p], [loc[p] EXCEPT !.memory_used = m], obs[p])
       \/ stats_except(p, "info")

\* Lines 86-93: the dictionary is built, redis_client.dbsize() last, and
\* returned.
stats_dbsize(p) ==
    /\ at(p, "stats_dbsize")
    /\ UNCHANGED <<storev, putv, keyv, calls>>
    /\ \/ finish(p, req[p],
                  [obs[p] EXCEPT !.stats =
                      [cache_hits |-> loc[p].hits,
                       cache_misses |-> loc[p].misses,
                       hit_rate |-> hit_rate_of(loc[p].hits, loc[p].hits + loc[p].misses),
                       total_requests |-> loc[p].hits + loc[p].misses,
                       memory_used |-> loc[p].memory_used,
                       total_keys |-> redis_dbsize]])
       \/ stats_except(p, "dbsize")

---------------------------------------------------------------------------
(* The store's own expiry *)

\* A key whose lifetime has run out is removed.
KeyExpires ==
    /\ quiet
    /\ UNCHANGED <<procv, keyv, calls>>
    /\ \/ \E k \in DOMAIN redis_entries :
             /\ redis_entries[k].ttl # NoExpiry
             /\ redis_entries' = redis_drop(redis_entries, k)
             /\ dirty' = dirty \cup {k}
             /\ UNCHANGED <<redis_counters, put_done, put_rets>>
       \/ \E k \in DOMAIN redis_counters :
             /\ redis_counters[k].ttl # NoExpiry
             /\ redis_counters' = redis_drop(redis_counters, k)
             /\ dirty' = dirty \cup {k}
             /\ put_done' = redis_drop(put_done, k)
             /\ put_rets' = redis_drop(put_rets, k)
             /\ UNCHANGED redis_entries

---------------------------------------------------------------------------
(* app/translation.py: translate and the adapters *)

\* The ways an upstream call can fail.
UpstreamFailures == {"connect", "timeout", "status", "malformed", "rejected"}

\* Texts an upstream returns as the translation.
Translations == {"", "t1", "t2"}

\* response.text of a reply whose status is not 200.
response_text(failure) == IF failure = "rejected" THEN "Unauthorized" ELSE "Server Error"

\* str(e) of the exception raised inside an adapter's try block. A rejected
\* credential is a status other than 200, like any other refusal; only
\* Helsinki (lines 46-50) puts the body of the reply in the detail.
inner_message(adapter, failure) ==
    CASE failure = "connect" -> "ConnectError"
      [] failure = "timeout" -> "TimeoutException"
      [] failure = "malformed" -> "JSONDecodeError"
      [] adapter = "mymemory" -> "500: MyMemory error"
      [] adapter = "deepl" -> "500: DeepL API error"
      [] OTHER -> "500: Hugging Face Inference error: " \o response_text(failure)

\* The HTTPException an adapter raises for a failed upstream call.
\* mymemory (lines 97-98) and deepl (lines 122-123) have one except branch;
\* Helsinki (lines 60-73) has one per exception class, and a body that does
\* not parse raises a ValueError (json.JSONDecodeError is one).
adapter_exception(adapter, failure) ==
    CASE adapter = "mymemory" ->
            [status |-> 500,
             detail |-> "Translation error: " \o inner_message(adapter, failure)]
      [] adapter = "deepl" ->
            [status |-> 500,
             detail |-> "DeepL error: " \o inner_message(adapter, failure)]
      [] OTHER ->
            CASE failure = "connect" ->
                    [status |-> 500, detail |-> "HF connection failed: ConnectError"]
              [] failure = "timeout" ->
                    [status |-> 504, detail |-> "HF timeout: TimeoutException"]
              [] failure = "malformed" ->
                    [status |-> 400, detail |-> "HF config error: JSONDecodeError"]
              [] OTHER ->
                    [status |-> 500,
                     detail |-> "HF unexpected error: " \o inner_message(adapter, failure)]

\* What translate_with_Helsinki raises before any upstream call (lines 27-30):
\* a ValueError for a missing HF_TOKEN or a language pair other than en -> zh,
\* answered as 400 by its except ValueError branch (lines 69-70).
helsinki_config_error == [status |-> 400, detail |-> "HF config error: ValueError"]

\* Lines 154-160: the adapter translate() calls, "none" when no branch is taken.
route(provider, user_api_key) ==
    IF Truthy(user_api_key) /\ provider = "deepl" THEN "deepl"
    ELSE IF provider = "mymemory" THEN "mymemory"
    ELSE IF provider = "Helsinki" THEN "Helsinki"
    ELSE "none"

\* The credential the adapter is called with: deepl takes the user's key,
\* Helsinki reads the service's HF_TOKEN, mymemory takes none.
credential_of(adapter, user_api_key) ==
    CASE adapter = "deepl" -> user_api_key
      [] adapter = "Helsinki" -> "HF_TOKEN"
      [] OTHER -> None

\* str(e) of an HTTPException: "<status>: <detail>".
str_of_exception(e) == ToString(e.status) \o ": " \o e.detail

\* translate() returns r: to translate_text, which passes it on to
\* set_cached_translation (main.py lines 228-242), or to a direct caller.
tr_return(p, r) ==
    LET o == [obs[p] EXCEPT !.tr = "returned", !.tr_ret = r]
    IN  IF caller[p] = "request"
        THEN goto(p, "set_incr", [req[p] EXCEPT !.translated_text = r], loc[p], o)
        ELSE finish(p, req[p], o)

\* translate() raises e, the adapter's exception for the upstream failure
\* `failure`. In translate_text the except branch (main.py lines
\* 235-237) answers 500 with str(e) as the detail.
tr_raise(p, e, failure) ==
    LET o == [obs[p] EXCEPT !.tr = "raised", !.exc = e, !.upstream = failure]
    IN  IF caller[p] = "request"
        THEN finish(p, req[p],
                    [o EXCEPT !.resp = [NoResponse EXCEPT !.kind = "error", !.status = 500,
                                                          !.detail = str_of_exception(e)]])
        ELSE finish(p, req[p], o)

\* Lines 154-160 of translate(): the branch is chosen and its adapter called;
\* with no branch taken the function ends and returns None.
translate(p) ==
    /\ at(p, "translate")
    /\ UNCHANGED <<storev, putv, keyv, calls>>
    /\ LET adapter == route(req[p].provider, req[p].user_api_key)
       IN  IF adapter = "none"
           THEN tr_return(p, None)
           ELSE /\ pc' = [pc EXCEPT ![p] = "adapter"]
                /\ adapter_calls' =
                       [adapter_calls EXCEPT ![p] = Append(@,
                           [adapter |-> adapter,
                            api_key |-> credential_of(adapter, req[p].user_api_key)])]
                /\ UNCHANGED <<caller, req, loc, obs, history>>

\* The awaited adapter call ends: with the upstream's text, or with the
\* adapter's HTTPException.
adapter_return(p) ==
    /\ at(p, "adapter")
    /\ UNCHANGED <<storev, putv, keyv, calls>>
    /\ LET adapter == adapter_calls[p][Len(adapter_calls[p])].adapter
           pair_ok == req[p].source_lang = "en" /\ req[p].target_lang = "zh"
       IN  \/ /\ adapter = "Helsinki" => pair_ok
              /\ \E t \in Translations : tr_return(p, t)
           \/ /\ adapter = "Helsinki" => pair_ok
              /\ \E f \in UpstreamFailures : tr_raise(p, adapter_exception(adapter, f), f)
           \/ /\ adapter = "Helsinki"
              /\ tr_raise(p, helsinki_config_error, "config")

---------------------------------------------------------------------------
(* app/main.py: translate_text *)

\* Triples the requests are about. The last two differ only in where a ':'
\* falls between text and source_lang.
Triples == {<<"hello", "en", "zh">>, <<"a:b", "c", "zh">>, <<"a", "b:c", "zh">>}

\* Provider names of a request: the schema admits any string.
Providers == {"mymemory", "deepl", "Helsinki", "google", ""}

\* Providers whose stored user key translate_text looks up (line 214).
KeyedProviders == {"deepl", "google", "openai"}

\* The stored key of (user, provider): no active row, a row that decrypts,
\* or a row encrypted under another vault key.
KeyRows == {"none", "ok", "undecryptable"}

\* decrypt_api_key of a row that decrypts.
USER_KEY == "user-key-0123"

request_of(t, provider) ==
    [NoRequest EXCEPT !.text = t[1], !.source_lang = t[2], !.target_lang = t[3],
                      !.provider = provider]

\* Triples the concurrent requests are about.
RequestTriples == {<<"hello", "en", "zh">>}

\* A request arrives: lines 197-200 call get_cached_translation. Requests
\* are served one at a time here; the interleavings of the cache functions
\* are those of SpecCache.
StartRequest(p) ==
    /\ admit
    /\ \A q \in Procs : pc[q] = "idle"
    /\ \E t \in RequestTriples, pr \in Providers :
          begin(p, "request", "get_lookup", request_of(t, pr))

\* The response of translate_text.
respond_with(p, r) == finish(p, req[p], [obs[p] EXCEPT !.resp = r])

\* The cached result is not looked at.
check_cached_skips(p) ==
    /\ at(p, "check_cached")
    /\ UNCHANGED <<storev, putv, keyv, calls>>
    /\ goto(p, "resolve_key", req[p], loc[p], obs[p])

\* Lines 202-210: a cached result is answered at once.
check_cached(p) ==
    /\ at(p, "check_cached")
    /\ UNCHANGED <<storev, putv, keyv, calls>>
    /\ IF Truthy(loc[p].cached_result)
       THEN respond_with(p, [NoResponse EXCEPT !.kind = "ok", !.status = 200,
                                               !.translated_text = loc[p].cached_result,
                                               !.cached = TRUE])
       ELSE goto(p, "resolve_key", req[p], loc[p], obs[p])

\* Lines 213-224: the user's stored key is looked up and decrypted.
\* decrypt_api_key is called outside any try block: the InvalidToken of a
\* row that does not decrypt leaves the handler uncaught.
resolve_key(p) ==
    /\ at(p, "resolve_key")
    /\ UNCHANGED <<storev, putv, keyv, calls>>
    /\ IF req[p].provider \in KeyedProviders
       THEN \E row \in KeyRows :
              LET r == [req[p] EXCEPT !.user_key = row,
                                      !.user_api_key = IF row = "ok" THEN USER_KEY ELSE None]
              IN  IF row = "undecryptable"
                  THEN finish(p, r, [obs[p] EXCEPT !.resp =
                                       [NoResponse EXCEPT !.kind = "crash", !.status = 500,
                                                          !.detail = "InvalidToken"]])
                  ELSE goto(p, "translate", r, loc[p], obs[p])
       ELSE goto(p, "translate", req[p], loc[p], obs[p])

\* Lines 244-264: the response is built from translated_text and the count
\* set_cached_translation returned. TranslateResponse.translated_text is a
\* str: a None fails validation, uncaught.
respond(p) ==
    /\ at(p, "respond")
    /\ UNCHANGED <<storev, putv, keyv, calls>>
    /\ IF req[p].translated_text = None
       THEN respond_with(p, [NoResponse EXCEPT !.kind = "crash", !.status = 500,
                                               !.detail = "ValidationError"])
       ELSE respond_with(p, [NoResponse EXCEPT !.kind = "ok", !.status = 200,
                                               !.translated_text = req[p].translated_text,
                                               !.cached = FALSE,
                                               !.request_count = obs[p].put_ret])

---------------------------------------------------------------------------
(* Direct calls of the cache functions and of translate() *)

\* The triple the cache clients work on.
CacheTriples == {<<"hello", "en", "zh">>}

CallGet(p) ==
    /\ admit
    /\ \E t \in CacheTriples : begin(p, "get", "get_lookup", request_of(t, ""))

\* Texts the cache clients put.
CacheTexts == {"", "t1"}

CallPut(p) ==
    /\ admit
    /\ \E t \in CacheTriples, tt \in CacheTexts :
          begin(p, "put", "set_incr", [request_of(t, "") EXCEPT !.translated_text = tt])

\* One client putting again and again, until the count is MaxCount.
TierPut(p) ==
    /\ \A q \in Procs : pc[q] = "idle"
    /\ int_of(redis_counters, count_key_of(generate_cache_key("hello", "en", "zh"))) < MaxCount
    /\ UNCHANGED calls
    /\ begin(p, "put", "set_incr",
             [request_of(<<"hello", "en", "zh">>, "") EXCEPT !.translated_text = "t1"])

\* Clients putting the same text concurrently, until the count is MaxRace.
RacePut(p) ==
    /\ int_of(redis_counters, count_key_of(generate_cache_key("hello", "en", "zh"))) < MaxRace
    /\ UNCHANGED calls
    /\ begin(p, "put", "set_incr",
             [request_of(<<"hello", "en", "zh">>, "") EXCEPT !.translated_text = "t1"])

\* Clients of the statistics: gets, one at a time, until MaxStat of them
\* have been counted.
StatsGet(p) ==
    /\ \A q \in Procs : pc[q] = "idle"
    /\ int_of(redis_counters, STATS_HITS) + int_of(redis_counters, STATS_MISSES) < MaxStat
    /\ UNCHANGED calls
    /\ begin(p, "get", "get_lookup", request_of(<<"hello", "en", "zh">>, ""))

\* A put where the fingerprint has neither entry nor count.
StatsPut(p) ==
    /\ \A q \in Procs : pc[q] = "idle"
    /\ generate_cache_key("hello", "en", "zh") \notin DOMAIN redis_entries
    /\ count_key_of(generate_cache_key("hello", "en", "zh")) \notin DOMAIN redis_counters
    /\ UNCHANGED calls
    /\ begin(p, "put", "set_incr",
             [request_of(<<"hello", "en", "zh">>, "") EXCEPT !.translated_text = "t1"])

\* main.py line 404: the statistics endpoint calls get_cache_stats.
CallStats(p) ==
    /\ \A q \in Procs : pc[q] = "idle"
    /\ UNCHANGED calls
    /\ begin(p, "stats", "stats_hits", NoRequest)

\* user_api_key values of a translate() call: absent, empty, a key.
UserApiKeys == {None, "", USER_KEY}

CallTranslate(p) ==
    /\ admit
    /\ \A q \in Procs : pc[q] = "idle"
    /\ \E t \in Triples, pr \in Providers, k \in UserApiKeys :
          begin(p, "translate", "translate", [request_of(t, pr) EXCEPT !.user_api_key = k])

\* The end-to-end scenario: the same request, one at a time, traced.
ScenarioRequest(p) ==
    /\ admit
    /\ \A q \in Procs : pc[q] = "idle"
    /\ begin(p, "request", "get_lookup",
             [request_of(<<"hello", "en", "zh">>, "mymemory") EXCEPT !.traced = TRUE])

---------------------------------------------------------------------------
(* generate_cache_key on pairs of triples *)

Alphabet == {"a", ":"}

RECURSIVE StrsUpTo(_)
StrsUpTo(n) ==
    IF n = 0 THEN {""}
    ELSE LET S == StrsUpTo(n - 1) IN S \cup {s \o c : s \in S, c \in Alphabet}

\* Strings of the fields: every string over Alphabet up to MaxLen, and those
\* of the example "a:b", "c" against "a", "b:c".
FieldStrings == StrsUpTo(MaxLen) \cup {"a:b", "b:c", "c"}

\* TranslateRequest (schemas.py lines 29-33): text has min_length 1, the
\* language fields are any string.
KeyTriples ==
    {<<t, sl, tl>> : t \in FieldStrings \ {""}, sl \in FieldStrings, tl \in {"zh", ":"}}

InitKey ==
    /\ redis_entries = <<>>
    /\ redis_counters = <<>>
    /\ pc = [p \in Procs |-> "idle"]
    /\ caller = [p \in Procs |-> "none"]
    /\ req = [p \in Procs |-> NoRequest]
    /\ loc = [p \in Procs |-> NoLocals]
    /\ obs = [p \in Procs |-> NoObs]
    /\ adapter_calls = [p \in Procs |-> <<>>]
    /\ history = <<>>
    /\ calls = 0
    /\ put_done = <<>>
    /\ put_rets = <<>>
    /\ dirty = {}
    /\ tripleA \in KeyTriples
    /\ tripleB \in KeyTriples
    /\ keyA = None
    /\ keyB = None

\* The keys of the two triples are computed.
HashKeys ==
    /\ keyA = None
    /\ keyA' = generate_cache_key(tripleA[1], tripleA[2], tripleA[3])
    /\ keyB' = generate_cache_key(tripleB[1], tripleB[2], tripleB[3])
    /\ UNCHANGED <<storev, procv, putv, calls, tripleA, tripleB>>

---------------------------------------------------------------------------
(* Specifications *)

CacheSteps(p) ==
    \/ get_lookup(p)
    \/ get_stat(p)
    \/ set_incr(p)
    \/ set_expire(p)
    \/ set_setex(p)

RequestSteps(p) ==
    \/ check_cached(p)
    \/ resolve_key(p)
    \/ translate(p)
    \/ adapter_return(p)
    \/ respond(p)
    \/ CacheSteps(p)

\* The request flow: translate requests, one after the other.
Next ==
    \/ \E p \in Procs : StartRequest(p) \/ RequestSteps(p)
    \/ KeyExpires
    \/ \E p \in Procs : release(p)

Spec == Init /\ [][Next]_vars

\* The scenario: one request after the other.
NextScenario ==
    \/ \E p \in Procs : ScenarioRequest(p) \/ RequestSteps(p)
    \/ KeyExpires
    \/ \E p \in Procs : release(p)

SpecScenario == Init /\ [][NextScenario]_vars

\* Clients calling get_cached_translation and set_cached_translation.
NextCache ==
    \/ \E p \in Procs : CallGet(p) \/ CallPut(p) \/ CacheSteps(p)
    \/ KeyExpires
    \/ \E p \in Procs : release(p)

SpecCache == Init /\ [][NextCache]_vars

\* One client raising the popularity count.
NextTier ==
    \/ \E p \in Procs : TierPut(p) \/ set_incr(p) \/ set_expire(p) \/ set_setex(p)
    \/ KeyExpires
    \/ \E p \in Procs : release(p)

SpecTier == Init /\ [][NextTier]_vars

\* One client calling translate().
NextRoute ==
    \/ \E p \in Procs : CallTranslate(p) \/ translate(p) \/ adapter_return(p)
    \/ \E p \in Procs : release(p)

SpecRoute == Init /\ [][NextRoute]_vars

\* Concurrent puts on one fingerprint.
NextRace ==
    \/ \E p \in Procs : RacePut(p) \/ set_incr(p) \/ set_expire(p) \/ set_setex(p)
    \/ KeyExpires
    \/ \E p \in Procs : release(p)

SpecRace == Init /\ [][NextRace]_vars

StatsSteps(p) ==
    \/ stats_hits(p)
    \/ stats_misses(p)
    \/ stats_info(p)
    \/ stats_dbsize(p)

\* Gets and puts, one after the other, and the statistics read in between.
NextStats ==
    \/ \E p \in Procs : StatsGet(p) \/ StatsPut(p) \/ CallStats(p)
    \/ \E p \in Procs : CacheSteps(p) \/ StatsSteps(p)
    \/ KeyExpires
    \/ \E p \in Procs : release(p)

SpecStats == Init /\ [][NextStats]_vars

\* generate_cache_key applied to two triples.
SpecKey == InitKey /\ [][HashKeys]_vars

---------------------------------------------------------------------------
(* Claims *)

\* The provider names translate() has a branch for.
RecognizedProviders == {"mymemory", "deepl", "Helsinki"}

\* Handler p has completed a call of the given kind.
Completed(p, kind) == pc[p] = "done" /\ caller[p] = kind

\* C1: translate() with a provider name that is not recognized (the empty
\* string included) fails with UnsupportedProvider, whatever the text, the
\* languages and the user credential: it returns no value and invokes no
\* adapter.
C1_UnknownProviderFails ==
    \A p \in Procs :
        (Completed(p, "translate") /\ req[p].provider \notin RecognizedProviders)
            => /\ obs[p].tr = "raised"
               /\ obs[p].exc.detail = "UnsupportedProvider"
               /\ adapter_calls[p] = <<>>

\* C2: translate() with a recognized provider name, with or without a user
\* credential, invokes exactly one adapter exactly once: the adapter of the
\* named provider, with the user's credential when one is supplied and the
\* provider accepts it.
C2_OneAdapterOnce ==
    \A p \in Procs :
        (Completed(p, "translate") /\ req[p].provider \in RecognizedProviders)
            => /\ Len(adapter_calls[p]) = 1
               /\ adapter_calls[p][1].adapter = req[p].provider
               /\ (req[p].provider = "deepl" /\ Truthy(req[p].user_api_key))
                     => adapter_calls[p][1].api_key = req[p].user_api_key

\* C3: every successful put gives the cache entry the lifetime of the tier
\* of the count its own increment produced: 1800 s for 1..4, 3600 s for
\* 5..19, 86400 s for 20..99, 604800 s from 100 on.
C3_TtlIsTierOfCount ==
    \A p \in Procs :
        (Completed(p, "put") /\ ~obs[p].put_failed)
            => LET c == obs[p].put_ret
                   ttl == redis_entries[cache_key(p)].ttl
               IN  /\ c = loc[p].count
                   /\ c >= 1
                   /\ obs[p].put_ttl = ttl
                   /\ (c <= 4) => ttl = 1800
                   /\ (5 <= c /\ c <= 19) => ttl = 3600
                   /\ (20 <= c /\ c <= 99) => ttl = 86400
                   /\ (c >= 100) => ttl = 604800

\* A put that produced the count 100 has written the 7-day lifetime.
C3_Witness ==
    \E p \in Procs :
        /\ Completed(p, "put")
        /\ obs[p].put_ret = 100
        /\ redis_entries[cache_key(p)].ttl = 604800

\* C4: a get that follows a successful put of t on the same triple, with no
\* expiry and no other put in between (the entry the put wrote is what the
\* lookup finds), returns exactly t, the empty string included.
C4_PutThenGet ==
    \A p \in Procs :
        (Completed(p, "get") /\ ~obs[p].get_failed /\ obs[p].get_present)
            => obs[p].get_ret = obs[p].get_stored

\* C5: a get increments exactly one of the two counters by one: the hit
\* counter if and only if an entry is present, whatever its text, the miss
\* counter if and only if none is.
C5_GetCountsPresence ==
    \A p \in Procs :
        (Completed(p, "get") /\ ~obs[p].get_failed)
            => /\ obs[p].get_hit + obs[p].get_miss = 1
               /\ obs[p].get_hit = 1 <=> obs[p].get_present
               /\ obs[p].get_miss = 1 <=> ~obs[p].get_present

\* The count keys of the triples the cache clients work on.
CacheCountKeys ==
    {count_key_of(generate_cache_key(t[1], t[2], t[3])) : t \in CacheTriples}

\* The puts on count key k that have incremented and not yet returned.
PutsRunning(k) ==
    {p \in Procs : pc[p] \in {"set_expire", "set_setex"} /\ count_key(p) = k}

\* C6: concurrent puts on one fingerprint lose no increment. While no put
\* has met a store failure and the counter has not expired, the count is
\* the number of puts that have incremented, and the values they hold or
\* have returned are pairwise distinct and are exactly 1..count; so once N
\* puts have all completed the count is N and they returned 1..N.
C6_NoLostIncrement ==
    \A k \in CacheCountKeys :
        k \notin dirty
            => LET running == PutsRunning(k)
                   n == done_of(k) + Cardinality(running)
               IN  /\ int_of(redis_counters, k) = n
                   /\ Cardinality(rets_of(k)) = done_of(k)
                   /\ \A p, q \in running : p # q => loc[p].count # loc[q].count
                   /\ rets_of(k) \cup {loc[p].count : p \in running} = 1..n

\* Two puts overlapped and both completed: the one that incremented first
\* (it returns 1) completes after the one that returned 2.
C6_Witness ==
    \E k \in CacheCountKeys, p \in Procs :
        /\ k \notin dirty
        /\ done_of(k) = 2
        /\ PutsRunning(k) = {}
        /\ Completed(p, "put")
        /\ count_key(p) = k
        /\ obs[p].put_ret = 1

\* The first two requests of the scenario completed with status 200 and
\* without store failure, no key has expired, and the upstream's answer to
\* the first was a non-empty text.
ScenarioRan ==
    /\ Len(history) = 2
    /\ history[1].clean
    /\ history[2].clean
    /\ dirty = {}
    /\ Truthy(history[1].resp.translated_text)

\* C7: from an empty store, of two identical requests ("hello", "en", "zh",
\* mymemory, no credential) made one after the other, the first misses the
\* cache, invokes the mymemory adapter once, stores the result for 1800 s
\* and answers request_count 1 with cached false; the second, within the
\* lifetime, answers the same text with cached true and invokes no adapter;
\* afterwards the popularity count is 1, hits = 1 and misses = 1.
C7_Scenario ==
    ScenarioRan
        => LET first == history[1]
               second == history[2]
           IN  /\ first.get_miss = 1
               /\ first.adapter_calls = <<[adapter |-> "mymemory", api_key |-> None]>>
               /\ first.put_ttl = 1800
               /\ first.resp.request_count = 1
               /\ ~first.resp.cached
               /\ second.resp.translated_text = first.resp.translated_text
               /\ second.resp.cached
               /\ second.adapter_calls = <<>>
               /\ second.count = 1
               /\ second.hits = 1
               /\ second.misses = 1

\* The scenario has run, and its second request has just completed.
C7_Witness ==
    /\ ScenarioRan
    /\ \E p \in Procs : Completed(p, "request") /\ obs[p].resp.cached

\* C8: a store failure at any step of get_cached_translation makes the call
\* return None and raise nothing, and the request goes on to the provider
\* as on a miss: it is never answered from the cache, and it reaches
\* translate() unless the stored user key fails to decrypt first.
C8_GetFailureIsMiss ==
    \A p \in Procs :
        (caller[p] = "request" /\ obs[p].get_failed)
            => /\ obs[p].get = "returned"
               /\ obs[p].get_ret = None
               /\ loc[p].cached_result = None
               /\ pc[p] = "done"
                     => /\ ~obs[p].resp.cached
                        /\ obs[p].resp.detail # "RedisError"
                        /\ obs[p].tr # "none" \/ req[p].user_key = "undecryptable"

\* A request whose lookup found an entry, whose hit increment failed, and
\* which was answered by the provider.
C8_Witness ==
    \E p \in Procs :
        /\ Completed(p, "request")
        /\ obs[p].get_failed
        /\ obs[p].get_present
        /\ obs[p].tr = "returned"
        /\ obs[p].resp.kind = "ok"

\* C9: a store failure at any step of set_cached_translation makes the call
\* return 0 and raise nothing, and the request still answers the text the
\* provider translated, with cached false.
C9_PutFailureStillAnswers ==
    \A p \in Procs :
        (caller[p] = "request" /\ obs[p].put_failed /\ req[p].translated_text # None)
            => /\ obs[p].put = "returned"
               /\ obs[p].put_ret = 0
               /\ pc[p] \in {"respond", "done"}
               /\ pc[p] = "done"
                     => /\ obs[p].resp.kind = "ok"
                        /\ obs[p].resp.translated_text = obs[p].tr_ret
                        /\ ~obs[p].resp.cached
                        /\ obs[p].resp.request_count = 0

\* A request whose entry write failed after its increment, answered with
\* the translated text.
C9_Witness ==
    \E p \in Procs :
        /\ Completed(p, "request")
        /\ obs[p].put_failed
        /\ loc[p].count >= 1
        /\ obs[p].resp.kind = "ok"
        /\ Truthy(obs[p].resp.translated_text)

\* C10: generate_cache_key gives two triples the same key if and only if
\* the triples are equal field by field, also when fields contain ':'.
C10_KeyInjective ==
    keyA # None => ((keyA = keyB) <=> (tripleA = tripleB))

\* c hundredths of a percent is the hundredth nearest to hits out of total.
NearestHundredths(c, hits, total) ==
    LET diff == IF c * total >= 10000 * hits THEN c * total - 10000 * hits
                                             ELSE 10000 * hits - c * total
    IN  2 * diff <= total

\* C11: get_cache_stats reports total_requests = hits + misses and hit_rate
\* = hits / (hits + misses) as a percentage (to the hundredth), 0 when both
\* counters are zero; with 3 hits and 1 miss counted it reports 75% and
\* total_requests 4.
C11_StatsDerived ==
    \A p \in Procs :
        (Completed(p, "stats") /\ obs[p].stats_failed = "none")
            => LET st == obs[p].stats
                   hits == int_of(redis_counters, STATS_HITS)
                   misses == int_of(redis_counters, STATS_MISSES)
               IN  /\ st.cache_hits = hits
                   /\ st.cache_misses = misses
                   /\ st.total_requests = hits + misses
                   /\ (hits + misses = 0) => st.hit_rate = "0.00%"
                   /\ (hits + misses > 0)
                         => \E c \in 0..10000 :
                               /\ NearestHundredths(c, hits, hits + misses)
                               /\ st.hit_rate = format_2f(c)
                   /\ (hits = 3 /\ misses = 1)
                         => st.hit_rate = "75.00%" /\ st.total_requests = 4

\* The statistics read after 3 hits and 1 miss were counted.
C11_Witness ==
    \E p \in Procs :
        /\ Completed(p, "stats")
        /\ obs[p].stats_failed = "none"
        /\ obs[p].stats.cache_hits = 3
        /\ obs[p].stats.cache_misses = 1
        /\ obs[p].stats.hit_rate = "75.00%"

\* C12: when the two counters are readable and the store's introspection
\* (memory info or key count) is not, get_cache_stats still reports the
\* true hits, misses and total_requests (and with them the hit rate).
C12_IntrospectionLeavesCounts ==
    \A p \in Procs :
        (Completed(p, "stats") /\ obs[p].stats_failed \in {"info", "dbsize"})
            => LET st == obs[p].stats
                   hits == int_of(redis_counters, STATS_HITS)
                   misses == int_of(redis_counters, STATS_MISSES)
               IN  /\ st.cache_hits = hits
                   /\ st.cache_misses = misses
                   /\ st.total_requests = hits + misses

\* C13: a request whose stored credential does not decrypt ends in a handled
\* translation failure, not in an uncaught exception; it invokes no adapter
\* and writes neither cache entry nor popularity count.
C13_UndecryptableIsHandled ==
    \A p \in Procs :
        (Completed(p, "request") /\ req[p].user_key = "undecryptable")
            => /\ obs[p].resp.kind = "error"
               /\ adapter_calls[p] = <<>>
               /\ obs[p].put = "none"

\* The error kind the caller is to see for each upstream failure.
ErrorKindOf(failure) ==
    CASE failure = "connect" -> "UpstreamUnavailable"
      [] failure = "timeout" -> "UpstreamTimeout"
      [] failure = "rejected" -> "InvalidCredential"
      [] OTHER -> "UpstreamBadResponse"

\* What the caller of the translate request receives when the adapter met
\* the upstream failure: status and detail of the error response.
CallerSees(adapter, failure) ==
    [status |-> 500, detail |-> str_of_exception(adapter_exception(adapter, failure))]

\* C14: an upstream failure reaches the caller of the translate request as
\* an error, and as one that tells its kind: the response received for a
\* failure is not the response of a failure of another error kind (a timeout
\* is told from a bad credential and from a bad response).
C14_FailureKindsDistinct ==
    \A p \in Procs :
        (Completed(p, "request") /\ obs[p].upstream \in UpstreamFailures)
            => /\ obs[p].resp.kind = "error"
               /\ \A g \in UpstreamFailures :
                     ErrorKindOf(g) # ErrorKindOf(obs[p].upstream)
                        => CallerSees(adapter_calls[p][1].adapter, g)
                              # [status |-> obs[p].resp.status, detail |-> obs[p].resp.detail]

\* C15: a request answered from the cache, and a request whose translation
\* did not succeed (translate() raised, or returned no text), leaves the
\* popularity count alone; a request that missed the cache and whose
\* translation succeeded increments it exactly once (the count its put
\* returns is the one its increment produced).
C15_CountOncePerFill ==
    \A p \in Procs :
        Completed(p, "request")
            => LET succeeded == obs[p].tr = "returned" /\ obs[p].tr_ret # None
                   incremented == loc[p].count >= 1
               IN  /\ (obs[p].resp.cached \/ ~succeeded) => ~incremented
                   /\ (~obs[p].resp.cached /\ succeeded /\ ~obs[p].put_failed)
                         => incremented /\ obs[p].put_ret = loc[p].count

\* No handler is inside a call.
NoCallRunning == \A p \in Procs : pc[p] \in {"idle", "done"}

\* C16: increment and expiry refresh of the popularity counter are one
\* step, so a counter that exists has an expiry set, also after the store
\* failed between the two commands. Stated for the states in which no call
\* is running: what is left behind once every put has returned.
C16_CounterHasExpiry ==
    NoCallRunning
        => \A k \in CacheCountKeys :
              k \in DOMAIN redis_counters => redis_counters[k].ttl = COUNT_WINDOW

\* C17: a put that returns 0 because the store failed has changed nothing:
\* in particular its increment of the popularity count has not taken
\* effect, whichever step failed.
C17_FailedPutNoEffect ==
    \A p \in Procs :
        (Completed(p, "put") /\ obs[p].put_failed /\ req[p].translated_text # None)
            => /\ obs[p].put_ret = 0
               /\ loc[p].count = 0

\* C18: within one counter window, once the concurrent puts of a
\* fingerprint have all completed (none failed, nothing expired), the
\* lifetime of its cache entry is the tier of its final popularity count.
C18_FinalTtlIsTierOfCount ==
    \A t \in CacheTriples :
        LET k == generate_cache_key(t[1], t[2], t[3])
        IN  (/\ NoCallRunning
             /\ k \notin dirty
             /\ count_key_of(k) \notin dirty
             /\ k \in DOMAIN redis_entries)
                => redis_entries[k].ttl = expire_seconds(int_of(redis_counters, count_key_of(k)))

====
